---- MODULE Spec2Model ----
(***************************************************************************)
(* Model of the balance bookkeeping and the settlement optimizer of the    *)
(* SplitUp expense tracker.                                                *)
(*                                                                         *)
(* Money is a JavaScript number in the source.  It is modelled as an       *)
(* integer count of units, Cent units making 0.01 of the currency, so that *)
(* sub-cent balances (an equal split of 100 among 3) and the rounding to   *)
(* two decimals are both representable.  Arithmetic is exact on that grid. *)
(***************************************************************************)
EXTENDS Integers, Sequences, FiniteSets, TLC

\* ------------------------------------------------------------------ bounds
\* units per 0.01 of the currency (resolution of the money grid)
Cent == 2
\* number of members of the group
NMembers == 3
\* largest magnitude of a balance handed to the optimizer, in units
MaxBal == 6
\* largest number of expenses and payments: stored at one time in the demo
\* store, inserted in total in the Supabase store
MaxRecords == 1
\* largest number of splits of one expense
MaxSplits == 3
\* number of members of a group handed to the optimizer on its own
GroupSize == 4
\* number of members of a group whose balances are multiples of 0.015
SubCentGroupSize == 5
\* largest balance of such a group, in multiples of 0.015
MaxShares == 3
\* number of service calls running at the same time
NCallers == 2

\* a tolerance of zero: the comparisons written against 0 instead of 0.01
TolZero == 0

\* the tolerance literal 0.01 of GroupDetail, in units
Tol == Cent

VARIABLES
  group,             \* GroupDetail state `group`: its members, in order
  pc,                \* position of the settlements computation
  creditorBalances,  \* working copy of the creditors
  debtorBalances,    \* working copy of the debtors
  result,            \* instructions pushed so far
  optOutcome,        \* how the settlements computation ended
  pageExpenses,      \* GroupDetail state `expenses`
  demoMembers,       \* localStorage 'demo-groups': the group's members
  demoOtherGroups,   \* localStorage 'demo-groups': the other groups
  demoExpenses,      \* localStorage 'demo-expenses'
  demoPayments,      \* localStorage 'demo-payments'
  demoOutcome,       \* how the last demo service call ended
  demoCalls,         \* the addExpense calls that have not returned yet
  tblMembers,        \* table group_members: <<group_id, user_id>> -> balance
  tblExpenses,       \* tables expenses and expense_splits of the group
  tblPayments,       \* table payments of the group
  supaOutcome,       \* what the last Supabase service call returned
  supaAllValid,      \* history: every call so far had valid arguments
  supaInserted,      \* number of rows inserted so far (ids are never reused)
  inflight,          \* the Supabase service calls that have not returned yet
  snapshot           \* the balances a getGroupWithMembers call returned, or <<>>

optVars ==
  <<group, pc, creditorBalances, debtorBalances, result, optOutcome,
    pageExpenses>>

demoVars ==
  <<demoMembers, demoOtherGroups, demoExpenses, demoPayments, demoOutcome,
    demoCalls>>

supaVars ==
  <<tblMembers, tblExpenses, tblPayments, supaOutcome, supaAllValid, supaInserted,
    inflight, snapshot>>

vars == <<optVars, demoVars, supaVars>>

\* ------------------------------------------------------------- helpers
Abs(x) == IF x < 0 THEN -x ELSE x

Min(a, b) == IF a < b THEN a ELSE b

RECURSIVE SumOver(_, _)
SumOver(f, S) ==
  IF S = {} THEN 0
  ELSE LET x == CHOOSE y \in S : TRUE IN f[x] + SumOver(f, S \ {x})

\* Math.round(amount * 100) / 100 for amount >= 0: nearest multiple of 0.01,
\* a half rounding up
Round2(x) == ((2 * x + Cent) \div (2 * Cent)) * Cent

\* insertion of e into a list already sorted descending by remaining: e goes
\* behind every element whose remaining is not smaller than its own, so equal
\* elements keep their order
RECURSIVE InsertDesc(_, _)
InsertDesc(e, s) ==
  IF s = <<>> THEN <<e>>
  ELSE IF Head(s).remaining >= e.remaining
       THEN <<Head(s)>> \o InsertDesc(e, Tail(s))
       ELSE <<e>> \o s

\* the sort left out: the list stays in the order it has
SortNone(s) == s

\* list.sort((a, b) => b.remaining - a.remaining): descending by remaining,
\* stable (equal elements keep their relative order)
RECURSIVE SortDesc(_)
SortDesc(s) ==
  IF s = <<>> THEN <<>>
  ELSE InsertDesc(s[Len(s)], SortDesc(SubSeq(s, 1, Len(s) - 1)))

\* ------------------------------------------------- the settlement optimizer
\* the creditor test against 0 instead of 0.01
IsCreditorNoTol(m) == m.balance > 0

IsCreditor(m) == m.balance > Tol

\* the debtor test with the sign of the tolerance lost
IsDebtorNoSign(m) == m.balance < Tol

IsDebtor(m) == m.balance < -Tol

\* the partition with the filters and the copies left out, the lists being
\* group.members itself: sorting them sorts the members of the group
PartitionInPlace ==
  /\ pc = "start"
  /\ creditorBalances' =
       [i \in 1..Len(SelectSeq(group, IsCreditor)) |->
          [userId |-> SelectSeq(group, IsCreditor)[i].userId,
           remaining |-> SelectSeq(group, IsCreditor)[i].balance]]
  /\ debtorBalances' =
       [i \in 1..Len(SelectSeq(group, IsDebtor)) |->
          [userId |-> SelectSeq(group, IsDebtor)[i].userId,
           remaining |-> Abs(SelectSeq(group, IsDebtor)[i].balance)]]
  /\ group' = SelectSeq(group, IsCreditor) \o SelectSeq(group, IsDebtor)
  /\ result' = <<>>
  /\ pc' = "loop"
  /\ UNCHANGED <<optOutcome, pageExpenses>>
  /\ UNCHANGED <<demoVars, supaVars>>

\* GroupDetail.settlements, up to the loop: partition the members and copy
\* them with their remaining amounts
Partition ==
  /\ pc = "start"
  /\ creditorBalances' =
       [i \in 1..Len(SelectSeq(group, IsCreditor)) |->
          [userId |-> SelectSeq(group, IsCreditor)[i].userId,
           remaining |-> SelectSeq(group, IsCreditor)[i].balance]]
  /\ debtorBalances' =
       [i \in 1..Len(SelectSeq(group, IsDebtor)) |->
          [userId |-> SelectSeq(group, IsDebtor)[i].userId,
           remaining |-> Abs(SelectSeq(group, IsDebtor)[i].balance)]]
  /\ result' = <<>>
  /\ pc' = "loop"
  /\ UNCHANGED <<group, optOutcome, pageExpenses>>
  /\ UNCHANGED <<demoVars, supaVars>>

\* shift() only when the first party's remaining amount is negative
DropClearedBelowZero(s) == IF Head(s).remaining < 0 THEN Tail(s) ELSE s

\* shift() when the first party's remaining amount is below 0.01
DropCleared(s) == IF Head(s).remaining < Tol THEN Tail(s) ELSE s

\* one iteration of the while loop
LoopStep ==
  /\ pc = "loop"
  /\ creditorBalances # <<>>
  /\ debtorBalances # <<>>
  /\ LET cs == SortDesc(creditorBalances)
         ds == SortDesc(debtorBalances)
         creditor == cs[1]
         debtor == ds[1]
         amount == Min(creditor.remaining, debtor.remaining)
         cs2 == [cs EXCEPT ![1].remaining = @ - amount]
         ds2 == [ds EXCEPT ![1].remaining = @ - amount]
     IN /\ result' = Append(result, [from |-> debtor.userId,
                                     to |-> creditor.userId,
                                     amount |-> Round2(amount)])
        /\ creditorBalances' = DropCleared(cs2)
        /\ debtorBalances' = DropCleared(ds2)
  /\ UNCHANGED <<group, pc, optOutcome, pageExpenses>>
  /\ UNCHANGED <<demoVars, supaVars>>

\* the loop condition fails: return result
Return ==
  /\ pc = "loop"
  /\ (creditorBalances = <<>> \/ debtorBalances = <<>>)
  /\ pc' = "done"
  /\ optOutcome' = "returned"
  /\ UNCHANGED <<group, creditorBalances, debtorBalances, result, pageExpenses>>
  /\ UNCHANGED <<demoVars, supaVars>>

\* ------------------------------------------- the demo (localStorage) store
\* the group the calls are made on, and another group with the same users
TheGroup == "group"

OtherGroup == "other"

GroupIds == {TheGroup, OtherGroup}

\* user ids: the members of the group, and one user who is not a member
Users == 1..(NMembers + 1)

MemberIds == 1..NMembers

\* amounts a caller may pass for one share or one payment, in units: a
\* negative one, and a positive one above 0.01 that is not a whole cent
Amounts == {-Cent, Cent + 1}

\* ExpenseForm.handleSubmit: every selected member gets the same share;
\* the splits follow the order of the selected members
RECURSIVE SplitsOf(_, _)
SplitsOf(S, share) ==
  IF S = {} THEN <<>>
  ELSE LET u == CHOOSE x \in S : \A y \in S : x <= y
       IN <<[userId |-> u, amount |-> share]>> \o SplitsOf(S \ {u}, share)

SplitLists ==
  {SplitsOf(S, share) :
     S \in {T \in SUBSET Users : T # {} /\ Cardinality(T) <= MaxSplits},
     share \in Amounts}

SplitTotal(splits) ==
  SumOver([k \in 1..Len(splits) |-> splits[k].amount], 1..Len(splits))

\* the arguments of expensesService.create / demoExpensesService.addExpense:
\* a payer, a total and the splits; the total is the sum of the splits or not
ExpenseInputs ==
  {[paidBy |-> p, amount |-> SplitTotal(sp) + d, splits |-> sp] :
     p \in Users, sp \in SplitLists, d \in {0, Cent}}

\* the arguments of a payment; the amount may also be a whole cent, 0.01
PaymentInputs ==
  {[fromUserId |-> f, toUserId |-> t, amount |-> a] :
     f \in Users, t \in Users, a \in Amounts \cup {Cent}}

\* generateId(): an id no stored expense has
FreshId(expenses) ==
  CHOOSE i \in 1..(Len(expenses) + 1) :
    \A k \in 1..Len(expenses) : expenses[k].id # i

\* what one expense adds to the balance of uid: its amount if uid paid it,
\* minus every split of uid
ExpenseDelta(e, uid) ==
  (IF e.paidBy = uid THEN e.amount ELSE 0)
  - SumOver([j \in 1..Len(e.splits) |->
               IF e.splits[j].userId = uid THEN e.splits[j].amount ELSE 0],
            1..Len(e.splits))

IsMember(members, uid) == \E k \in 1..Len(members) : members[k].userId = uid

\* the recomputation with the payer's credit forgotten
DemoBalanceNoCredit(members, expenses, uid) ==
  IF IsMember(members, uid)
  THEN SumOver([k \in 1..Len(expenses) |->
                  ExpenseDelta([expenses[k] EXCEPT !.paidBy = 0], uid)],
               1..Len(expenses))
  ELSE 0

\* the balance updateGroupBalances computes for uid: 0, plus the amount of
\* every expense uid paid, minus every split of uid; only ids in the balances
\* map (the members) are touched
DemoBalance(members, expenses, uid) ==
  IF IsMember(members, uid)
  THEN SumOver([k \in 1..Len(expenses) |-> ExpenseDelta(expenses[k], uid)],
               1..Len(expenses))
  ELSE 0

\* the recomputation started from the stored balances instead of from 0
RecomputedOnStored(members, expenses) ==
  [k \in 1..Len(members) |->
     [members[k] EXCEPT
        !.balance = members[k].balance
                    + DemoBalance(members, expenses, members[k].userId)]]

\* demoExpensesService.updateGroupBalances: the members with their balances
\* replaced by the recomputed ones
Recomputed(members, expenses) ==
  [k \in 1..Len(members) |->
     [members[k] EXCEPT
        !.balance = DemoBalance(members, expenses, members[k].userId)]]

\* what localStorage holds under 'demo-groups': the group, then the others
StoredGroups(members, others) ==
  <<[id |-> TheGroup, members |-> members]>> \o others

\* the balances recomputed in every stored group, not only in the one found
UpdatedGroupsAll(groups, expenses, groupId) ==
  [k \in 1..Len(groups) |->
     [groups[k] EXCEPT !.members = Recomputed(@, expenses)]]

\* the groups updateGroupBalances(groupId) saves: the group with that id has
\* its members' balances recomputed, the others are written back as read
UpdatedGroups(groups, expenses, groupId) ==
  [k \in 1..Len(groups) |->
     IF groups[k].id = groupId
     THEN [groups[k] EXCEPT !.members = Recomputed(@, expenses)]
     ELSE groups[k]]

\* the stored groups after updateGroupBalances of the group
SavedGroups(expenses) ==
  UpdatedGroups(StoredGroups(demoMembers, demoOtherGroups), expenses, TheGroup)

\* demoExpensesService.updateGroupBalances called on its own
UpdateGroupBalances ==
  /\ LET groups == SavedGroups(demoExpenses)
     IN /\ demoMembers' = groups[1].members
        /\ demoOtherGroups' = Tail(groups)
  /\ demoOutcome' = "resolved"
  /\ UNCHANGED <<demoExpenses, demoPayments, demoCalls>>
  /\ UNCHANGED <<optVars, supaVars>>

\* demoExpensesService.addExpense
AddExpense ==
  /\ Len(demoExpenses) + Len(demoPayments) < MaxRecords
  /\ \E e \in ExpenseInputs :
       LET newExpense == [id |-> FreshId(demoExpenses), paidBy |-> e.paidBy,
                          amount |-> e.amount, splits |-> e.splits]
           groups == SavedGroups(Append(demoExpenses, newExpense))
       IN /\ demoExpenses' = Append(demoExpenses, newExpense)
          /\ demoMembers' = groups[1].members
          /\ demoOtherGroups' = Tail(groups)
  /\ demoOutcome' = "resolved"
  /\ UNCHANGED <<demoPayments, demoCalls>>
  /\ UNCHANGED <<optVars, supaVars>>

\* demoExpensesService.deleteExpense: the balances are recomputed only when
\* the id was found
DeleteExpense ==
  /\ \E id \in 1..MaxRecords :
       LET found == \E k \in 1..Len(demoExpenses) : demoExpenses[k].id = id
           HasOtherId(e) == e.id # id
           groups == IF found
                     THEN SavedGroups(SelectSeq(demoExpenses, HasOtherId))
                     ELSE StoredGroups(demoMembers, demoOtherGroups)
       IN /\ demoExpenses' = SelectSeq(demoExpenses, HasOtherId)
          /\ demoMembers' = groups[1].members
          /\ demoOtherGroups' = Tail(groups)
  /\ demoOutcome' = "resolved"
  /\ UNCHANGED <<demoPayments, demoCalls>>
  /\ UNCHANGED <<optVars, supaVars>>

\* demoPaymentsService.addPayment: the payment is stored, nothing else
AddPayment ==
  /\ Len(demoExpenses) + Len(demoPayments) < MaxRecords
  /\ \E p \in PaymentInputs : demoPayments' = Append(demoPayments, p)
  /\ demoOutcome' = "resolved"
  /\ UNCHANGED <<demoMembers, demoOtherGroups, demoExpenses, demoCalls>>
  /\ UNCHANGED <<optVars, supaVars>>

\* a member as stored: the first member of a group is its admin
MemberRecord(i, balance) ==
  [userId |-> i, displayName |-> ToString(i),
   role |-> IF i = 1 THEN "admin" ELSE "member", balance |-> balance]

\* another stored group of the same users, with balances of its own
OtherGroupsStored ==
  <<[id |-> OtherGroup,
     members |-> [i \in 1..NMembers |->
                    MemberRecord(i, IF i = 1 THEN Cent
                                    ELSE IF i = NMembers THEN -Cent ELSE 0)]]>>

\* the store of a group whose members have no expenses and no payments yet
DemoStart ==
  /\ demoMembers = [i \in 1..NMembers |-> MemberRecord(i, 0)]
  /\ demoOtherGroups = OtherGroupsStored
  /\ demoExpenses = <<>>
  /\ demoPayments = <<>>
  /\ demoOutcome = "none"
  /\ demoCalls = <<>>

\* localStorage without demo data: the application is not in demo mode and
\* the page shows a group loaded from Supabase
DemoUnused ==
  /\ demoMembers = <<>>
  /\ demoOtherGroups = <<>>
  /\ demoExpenses = <<>>
  /\ demoPayments = <<>>
  /\ demoOutcome = "none"
  /\ demoCalls = <<>>

OptIdle ==
  /\ group = <<>>
  /\ pc = "idle"
  /\ creditorBalances = <<>>
  /\ debtorBalances = <<>>
  /\ result = <<>>
  /\ optOutcome = "none"
  /\ pageExpenses = <<>>

\* ------------------------------------------- the GroupDetail page, demo mode
\* demoExpensesService.getExpenses: the stored expenses, the newest first
NewestFirst(s) == [i \in 1..Len(s) |-> s[Len(s) + 1 - i]]

\* what ExpenseForm submits for the members it is given: a member as payer,
\* some of the members selected, and the total divided equally among them
FormInputs(members) ==
  {e \in ExpenseInputs :
     /\ IsMember(members, e.paidBy)
     /\ \A j \in 1..Len(e.splits) : IsMember(members, e.splits[j].userId)
     /\ e.amount = SplitTotal(e.splits)}

\* the effect run when the page is mounted: loadGroup sets group and expenses
\* from the store, and the render that follows recomputes settlements
LoadGroup ==
  /\ pc = "idle"
  /\ group' = demoMembers
  /\ pageExpenses' = NewestFirst(demoExpenses)
  /\ pc' = "start"
  /\ UNCHANGED <<creditorBalances, debtorBalances, result, optOutcome>>
  /\ UNCHANGED <<demoVars, supaVars>>

\* GroupDetail.handleAddExpense on what the form submits: the expense is
\* created through expensesService.create (demo mode: addExpense, which
\* recomputes the stored balances) and put in front of `expenses`; `group` is
\* not set, so settlements is not recomputed
HandleAddExpense ==
  /\ pc = "done"
  /\ Len(demoExpenses) < MaxRecords
  /\ \E e \in FormInputs(group) :
       LET newExpense == [id |-> FreshId(demoExpenses), paidBy |-> e.paidBy,
                          amount |-> e.amount, splits |-> e.splits]
           groups == SavedGroups(Append(demoExpenses, newExpense))
       IN /\ demoExpenses' = Append(demoExpenses, newExpense)
          /\ demoMembers' = groups[1].members
          /\ demoOtherGroups' = Tail(groups)
          /\ pageExpenses' = <<newExpense>> \o pageExpenses
  /\ demoOutcome' = "resolved"
  /\ UNCHANGED <<group, pc, creditorBalances, debtorBalances, result, optOutcome>>
  /\ UNCHANGED <<demoPayments, demoCalls>>
  /\ UNCHANGED supaVars

\* the page is left: the component is unmounted and its state is gone
Leave ==
  /\ pc = "done"
  /\ group' = <<>>
  /\ pc' = "idle"
  /\ creditorBalances' = <<>>
  /\ debtorBalances' = <<>>
  /\ result' = <<>>
  /\ optOutcome' = "none"
  /\ pageExpenses' = <<>>
  /\ UNCHANGED <<demoVars, supaVars>>

\* ------------------------------------------------------ the Supabase store
\* a value stored in a DECIMAL(12,2) column: rounded to a multiple of 0.01,
\* a half rounding away from zero
RoundDec(x) ==
  IF x >= 0 THEN ((2 * x + Cent) \div (2 * Cent)) * Cent
  ELSE -(((2 * (-x) + Cent) \div (2 * Cent)) * Cent)

\* update_balance with the group left out of the WHERE clause
UpdateBalanceAnyGroup(tbl, gid, uid, amt) ==
  [r \in DOMAIN tbl |->
     IF r[2] = uid THEN RoundDec(tbl[r] + amt) ELSE tbl[r]]

\* update_balance(p_group_id, p_user_id, p_amount): adds p_amount to the
\* balance of the row of that group and user, if there is one
UpdateBalance(tbl, gid, uid, amt) ==
  [r \in DOMAIN tbl |->
     IF r[1] = gid /\ r[2] = uid THEN RoundDec(tbl[r] + amt) ELSE tbl[r]]

\* the loop of expensesService.create over the splits: every split of a user
\* other than the payer debits that user and credits the payer
RECURSIVE ApplySplits(_, _, _, _)
ApplySplits(tbl, gid, paidBy, splits) ==
  IF splits = <<>> THEN tbl
  ELSE LET split == Head(splits)
           next == IF split.userId # paidBy
                   THEN UpdateBalance(UpdateBalance(tbl, gid, split.userId,
                                                    -split.amount),
                                      gid, paidBy, split.amount)
                   ELSE tbl
       IN ApplySplits(next, gid, paidBy, Tail(splits))

\* the rows the inserts store for an expense
ExpenseRow(id, e) ==
  [id |-> id, paidBy |-> e.paidBy, amount |-> RoundDec(e.amount),
   splits |-> [j \in 1..Len(e.splits) |->
                 [userId |-> e.splits[j].userId,
                  amount |-> RoundDec(e.splits[j].amount)]]]

ValidInput(e) ==
  /\ e.paidBy \in MemberIds
  /\ \A j \in 1..Len(e.splits) : e.splits[j].userId \in MemberIds
  /\ SplitTotal(e.splits) = e.amount

\* expensesService.create; when the insert of the expense fails it returns
\* null and nothing is stored, so the action is the call whose insert succeeds
ExpenseCreate ==
  /\ supaInserted < MaxRecords
  /\ supaInserted' = supaInserted + 1
  /\ \E e \in ExpenseInputs :
       /\ tblExpenses' = Append(tblExpenses, ExpenseRow(supaInserted + 1, e))
       /\ tblMembers' = ApplySplits(tblMembers, TheGroup, e.paidBy, e.splits)
       /\ supaAllValid' = (supaAllValid /\ ValidInput(e))
  /\ supaOutcome' = "expense"
  /\ UNCHANGED <<tblPayments, inflight, snapshot>>
  /\ UNCHANGED <<optVars, demoVars>>

\* expensesService.delete: the row (and, by cascade, its splits) is deleted
ExpenseDelete ==
  /\ \E id \in 1..MaxRecords :
       LET HasOtherId(e) == e.id # id
       IN tblExpenses' = SelectSeq(tblExpenses, HasOtherId)
  /\ supaOutcome' = "true"
  /\ UNCHANGED <<tblMembers, tblPayments, supaAllValid, supaInserted>>
  /\ UNCHANGED <<inflight, snapshot>>
  /\ UNCHANGED <<optVars, demoVars>>

\* paymentsService.create; as for expenses, a failing insert returns null and
\* stores nothing
PaymentCreate ==
  /\ supaInserted < MaxRecords
  /\ supaInserted' = supaInserted + 1
  /\ \E p \in PaymentInputs :
       /\ tblPayments' = Append(tblPayments, [p EXCEPT !.amount = RoundDec(@)])
       /\ tblMembers' = UpdateBalance(UpdateBalance(tblMembers, TheGroup,
                                                    p.fromUserId, p.amount),
                                      TheGroup, p.toUserId, -p.amount)
       /\ supaAllValid' = (supaAllValid /\ p.fromUserId \in MemberIds
                                        /\ p.toUserId \in MemberIds)
  /\ supaOutcome' = "payment"
  /\ UNCHANGED <<tblExpenses, inflight, snapshot>>
  /\ UNCHANGED <<optVars, demoVars>>

\* the tables of two groups whose members have no expenses and no payments
\* yet
SupaStart ==
  /\ tblMembers = [r \in GroupIds \X MemberIds |-> 0]
  /\ tblExpenses = <<>>
  /\ tblPayments = <<>>
  /\ supaOutcome = "none"
  /\ supaAllValid = TRUE
  /\ supaInserted = 0
  /\ inflight = <<>>
  /\ snapshot = <<>>

\* ------------------------------- Supabase calls running at the same time
\* the update_balance calls of expensesService.create, in the order of its
\* loop over the splits
RECURSIVE SplitOps(_, _)
SplitOps(paidBy, splits) ==
  IF splits = <<>> THEN <<>>
  ELSE (IF Head(splits).userId # paidBy
        THEN <<[userId |-> Head(splits).userId, amount |-> -Head(splits).amount],
               [userId |-> paidBy, amount |-> Head(splits).amount]>>
        ELSE <<>>)
       \o SplitOps(paidBy, Tail(splits))

\* the update_balance calls of paymentsService.create
PaymentOps(p) ==
  <<[userId |-> p.fromUserId, amount |-> p.amount],
    [userId |-> p.toUserId, amount |-> -p.amount]>>

\* the update_balance calls a service call makes after its insert
OpsOf(call) ==
  IF call.kind = "payment" THEN PaymentOps(call.arg)
  ELSE SplitOps(call.arg.paidBy, call.arg.splits)

\* the calls two members of the group may make: a payment between members,
\* or an expense paid by and split among members, the splits summing to its
\* total; no awaited step of the call has run yet
MemberCalls ==
  {[kind |-> "payment", arg |-> p, done |-> 0] :
     p \in {q \in PaymentInputs :
              q.fromUserId \in MemberIds /\ q.toUserId \in MemberIds}}
  \cup {[kind |-> "expense", arg |-> e, done |-> 0] :
          e \in {x \in ExpenseInputs : ValidInput(x)}}

\* the first awaited step of call c: the insert of its row (for an expense,
\* of its splits as well)
InsertRow(c) ==
  /\ inflight[c].done = 0
  /\ inflight' = [inflight EXCEPT ![c].done = 1]
  /\ supaInserted' = supaInserted + 1
  /\ IF inflight[c].kind = "payment"
     THEN /\ tblPayments' =
               Append(tblPayments, [inflight[c].arg EXCEPT !.amount = RoundDec(@)])
          /\ UNCHANGED tblExpenses
     ELSE /\ tblExpenses' =
               Append(tblExpenses, ExpenseRow(supaInserted + 1, inflight[c].arg))
          /\ UNCHANGED tblPayments
  /\ UNCHANGED <<tblMembers, supaOutcome, supaAllValid, snapshot>>
  /\ UNCHANGED <<optVars, demoVars>>

\* the next awaited supabase.rpc('update_balance') of call c; the UPDATE
\* statement runs as one step of the database
RpcUpdateBalance(c) ==
  /\ inflight[c].done >= 1
  /\ inflight[c].done <= Len(OpsOf(inflight[c]))
  /\ LET op == OpsOf(inflight[c])[inflight[c].done]
     IN tblMembers' = UpdateBalance(tblMembers, TheGroup, op.userId, op.amount)
  /\ inflight' = [inflight EXCEPT ![c].done = @ + 1]
  /\ UNCHANGED <<tblExpenses, tblPayments, supaOutcome, supaAllValid,
                 supaInserted, snapshot>>
  /\ UNCHANGED <<optVars, demoVars>>

Inserts == \E c \in 1..Len(inflight) : InsertRow(c)

Updates == \E c \in 1..Len(inflight) : RpcUpdateBalance(c)

\* groupsService.getGroupWithMembers: the balances of the members of the
\* group as its one select on group_members finds them
GetGroupWithMembers ==
  /\ snapshot = <<>>
  /\ snapshot' = [m \in MemberIds |-> tblMembers[<<TheGroup, m>>]]
  /\ UNCHANGED <<tblMembers, tblExpenses, tblPayments, supaOutcome,
                 supaAllValid, supaInserted, inflight>>
  /\ UNCHANGED <<optVars, demoVars>>

\* NCallers calls have been started and none has run its first step
RaceInit ==
  /\ tblMembers = [r \in GroupIds \X MemberIds |-> 0]
  /\ tblExpenses = <<>>
  /\ tblPayments = <<>>
  /\ supaOutcome = "none"
  /\ supaAllValid = TRUE
  /\ supaInserted = 0
  /\ inflight \in [1..NCallers -> MemberCalls]
  /\ snapshot = <<>>
  /\ OptIdle
  /\ DemoStart

RaceNext == Inserts \/ Updates

RaceSpec == RaceInit /\ [][RaceNext]_vars

\* one call has been started, and a reader may read at any time
ReadInit ==
  /\ tblMembers = [r \in GroupIds \X MemberIds |-> 0]
  /\ tblExpenses = <<>>
  /\ tblPayments = <<>>
  /\ supaOutcome = "none"
  /\ supaAllValid = TRUE
  /\ supaInserted = 0
  /\ inflight \in [{1} -> MemberCalls]
  /\ snapshot = <<>>
  /\ OptIdle
  /\ DemoStart

ReadNext == Inserts \/ Updates \/ GetGroupWithMembers

ReadSpec == ReadInit /\ [][ReadNext]_vars

SupaInit == SupaStart /\ OptIdle /\ DemoStart

SupaNext == ExpenseCreate \/ ExpenseDelete \/ PaymentCreate

SupaSpec == SupaInit /\ [][SupaNext]_vars

PageInit == OptIdle /\ DemoStart /\ SupaStart

PageNext ==
  LoadGroup \/ Partition \/ LoopStep \/ Return \/ HandleAddExpense \/ Leave

PageSpec == PageInit /\ [][PageNext]_vars

DemoInit == DemoStart /\ OptIdle /\ SupaStart

DemoNext == AddExpense \/ DeleteExpense \/ AddPayment

DemoSpec == DemoInit /\ [][DemoNext]_vars

\* ------------------------------ addExpense calls running at the same time
\* A call runs from one await to the next without interruption; between two
\* awaits of one call the steps of another call may run.

\* an addExpense call that has been made and has not run yet, with its local
\* variables `expenses` and `groups` not yet assigned
StartedCalls ==
  {[arg |-> e, at |-> "getAllExpenses", expenses |-> <<>>, groups |-> <<>>] :
     e \in FormInputs([i \in 1..NMembers |-> MemberRecord(i, 0)])}

\* addExpense up to its first await: getAllExpenses reads 'demo-expenses'
ReadAllExpenses(c) ==
  /\ demoCalls[c].at = "getAllExpenses"
  /\ demoCalls' = [demoCalls EXCEPT ![c].expenses = demoExpenses,
                                    ![c].at = "push"]
  /\ UNCHANGED <<demoMembers, demoOtherGroups, demoExpenses, demoPayments,
                 demoOutcome>>
  /\ UNCHANGED <<optVars, supaVars>>

\* addExpense after its first await: the new expense is pushed on the list
\* read before and the list is saved; updateGroupBalances is called and runs
\* up to its first await, where getGroups reads 'demo-groups'. generateId
\* draws a random id, so the calls get different ids: here the number of
\* the call
PushAndSave(c) ==
  /\ demoCalls[c].at = "push"
  /\ LET newExpense == [id |-> c, paidBy |-> demoCalls[c].arg.paidBy,
                        amount |-> demoCalls[c].arg.amount,
                        splits |-> demoCalls[c].arg.splits]
     IN demoExpenses' = Append(demoCalls[c].expenses, newExpense)
  /\ demoCalls' =
       [demoCalls EXCEPT ![c].groups = StoredGroups(demoMembers, demoOtherGroups),
                         ![c].at = "getExpenses"]
  /\ UNCHANGED <<demoMembers, demoOtherGroups, demoPayments, demoOutcome>>
  /\ UNCHANGED <<optVars, supaVars>>

\* updateGroupBalances after its first await: the group is found and
\* getExpenses reads 'demo-expenses' again
ReadGroupExpenses(c) ==
  /\ demoCalls[c].at = "getExpenses"
  /\ demoCalls' = [demoCalls EXCEPT ![c].expenses = NewestFirst(demoExpenses),
                                    ![c].at = "save"]
  /\ UNCHANGED <<demoMembers, demoOtherGroups, demoExpenses, demoPayments,
                 demoOutcome>>
  /\ UNCHANGED <<optVars, supaVars>>

\* updateGroupBalances after its second await: the balances are recomputed
\* from the expenses read, and the groups read before are saved
SaveGroups(c) ==
  /\ demoCalls[c].at = "save"
  /\ LET groups == UpdatedGroups(demoCalls[c].groups, demoCalls[c].expenses,
                                 TheGroup)
     IN /\ demoMembers' = groups[1].members
        /\ demoOtherGroups' = Tail(groups)
  /\ demoCalls' = [demoCalls EXCEPT ![c].at = "returned"]
  /\ demoOutcome' = "resolved"
  /\ UNCHANGED <<demoExpenses, demoPayments>>
  /\ UNCHANGED <<optVars, supaVars>>

ReadsAllExpenses == \E c \in 1..Len(demoCalls) : ReadAllExpenses(c)

PushesAndSaves == \E c \in 1..Len(demoCalls) : PushAndSave(c)

ReadsGroupExpenses == \E c \in 1..Len(demoCalls) : ReadGroupExpenses(c)

SavesGroups == \E c \in 1..Len(demoCalls) : SaveGroups(c)

\* NCallers addExpense calls have been made on the store of a group without
\* expenses, and none has run yet
DemoRaceInit ==
  /\ demoMembers = [i \in 1..NMembers |-> MemberRecord(i, 0)]
  /\ demoOtherGroups = OtherGroupsStored
  /\ demoExpenses = <<>>
  /\ demoPayments = <<>>
  /\ demoOutcome = "none"
  /\ demoCalls \in [1..NCallers -> StartedCalls]
  /\ OptIdle
  /\ SupaStart

DemoRaceNext ==
  ReadsAllExpenses \/ PushesAndSaves \/ ReadsGroupExpenses \/ SavesGroups

DemoRaceSpec == DemoRaceInit /\ [][DemoRaceNext]_vars

\* balances the store may hold for a member before a recomputation
StoredBalances == Amounts \cup {0}

\* what updateGroupBalances reads: the members with any stored balances, and
\* the stored expenses, none or one
AggInit ==
  /\ demoMembers \in
       {[i \in 1..NMembers |-> MemberRecord(i, b[i])] :
          b \in [1..NMembers -> StoredBalances]}
  /\ demoOtherGroups = OtherGroupsStored
  /\ demoExpenses \in
       {<<>>} \cup {<<[id |-> 1, paidBy |-> e.paidBy, amount |-> e.amount,
                       splits |-> e.splits]>> : e \in ExpenseInputs}
  /\ demoPayments = <<>>
  /\ demoOutcome = "none"
  /\ demoCalls = <<>>
  /\ OptIdle
  /\ SupaStart

AggNext == UpdateGroupBalances

AggSpec == AggInit /\ [][AggNext]_vars

\* the groups the page may hold: every assignment of balances to the members
Groups ==
  {[i \in 1..GroupSize |-> [userId |-> i, balance |-> b[i]]] :
     b \in [1..GroupSize -> -MaxBal..MaxBal]}

OptInit ==
  /\ group \in Groups
  /\ pc = "start"
  /\ creditorBalances = <<>>
  /\ debtorBalances = <<>>
  /\ result = <<>>
  /\ optOutcome = "none"
  /\ pageExpenses = <<>>
  /\ DemoUnused
  /\ SupaStart

OptNext == Partition \/ LoopStep \/ Return

Spec == OptInit /\ [][OptNext]_vars

\* groups whose balances are whole multiples of 0.015, the share of 0.03
\* split in two: every amount paid between them is rounded up by half a cent
SubCentGroups ==
  {[i \in 1..SubCentGroupSize |-> [userId |-> i, balance |-> b[i] * (Cent + 1)]] :
     b \in [1..SubCentGroupSize -> -1..MaxShares]}

SubCentInit ==
  /\ group \in SubCentGroups
  /\ pc = "start"
  /\ creditorBalances = <<>>
  /\ debtorBalances = <<>>
  /\ result = <<>>
  /\ optOutcome = "none"
  /\ pageExpenses = <<>>
  /\ DemoUnused
  /\ SupaStart

SubCentSpec == SubCentInit /\ [][OptNext]_vars

\* ----------------------------------------------------- optimizer: claims
Members == 1..GroupSize

BalanceOf(i) == group[i].balance

BalanceSum == SumOver([i \in Members |-> BalanceOf(i)], Members)

\* amounts of the instructions of plan that uid pays / receives
PaidBy(plan, uid) ==
  SumOver([k \in 1..Len(plan) |-> IF plan[k].from = uid THEN plan[k].amount ELSE 0],
          1..Len(plan))

PaidTo(plan, uid) ==
  SumOver([k \in 1..Len(plan) |-> IF plan[k].to = uid THEN plan[k].amount ELSE 0],
          1..Len(plan))

\* balance of member i after every instruction of plan is applied
AfterPlan(plan, i) == BalanceOf(i) + PaidBy(plan, i) - PaidTo(plan, i)

NonZeroCount == Cardinality({i \in Members : BalanceOf(i) # 0})

AllWithinCent == \A i \in Members : Abs(BalanceOf(i)) <= Cent

\* C1 (as claimed): for a zero-sum balance map, applying the returned plan
\* leaves every member's balance within 0.01 of zero.
C1_Completeness ==
  (pc = "done" /\ BalanceSum = 0) =>
    \A i \in Members : Abs(AfterPlan(result, i)) <= Cent

\* C2: for every balance map the optimizer emits at most N - 1 instructions,
\* N the number of members with a non-zero balance, and none when N <= 1.
C2_BoundedCount ==
  Len(result) <= IF NonZeroCount <= 1 THEN 0 ELSE NonZeroCount - 1

\* C2 witness: a finished run that attains the bound with two instructions
C2_Witness ==
  pc = "done" /\ NonZeroCount = 3 /\ Len(result) = 2

\* C3: if every balance is within 0.01 of zero the optimizer pushes no
\* instruction, so the list it returns is empty.
C3_NoOpOnSettled ==
  AllWithinCent => result = <<>>

\* C3 witness: a finished run on balances that are within 0.01 but not all 0
C3_Witness ==
  /\ pc = "done"
  /\ AllWithinCent
  /\ \E i, j \in Members : BalanceOf(i) = Cent /\ BalanceOf(j) = -Cent

\* C4 (as claimed): on a zero-sum balance map, an empty plan is returned only
\* when every balance is within 0.01 of zero.
C4_EmptyOnlyWhenSettled ==
  (pc = "done" /\ result = <<>> /\ BalanceSum = 0) => AllWithinCent

\* a party is left in one partition with more than 0.01 remaining
LeftOver ==
  \/ \E k \in 1..Len(creditorBalances) : creditorBalances[k].remaining > Cent
  \/ \E k \in 1..Len(debtorBalances) : debtorBalances[k].remaining > Cent

\* C10 (as claimed): when the loop ends with a party left holding more than
\* 0.01, the computation ends in an error instead of returning the list.
C10_UnbalancedIsError ==
  (pc = "done" /\ LeftOver) => optOutcome = "error"

\* position of the member uid in the member list of the group
PosOf(uid) == CHOOSE i \in 1..Len(group) : group[i].userId = uid

\* the entry of uid in a working list
EntryOf(list, uid) == list[CHOOSE k \in 1..Len(list) : list[k].userId = uid]

\* the step pushes an instruction
Pushes == Len(result') = Len(result) + 1

\* the instruction the step pushes
Pushed == result'[Len(result')]

CreditorCount == Cardinality({i \in Members : BalanceOf(i) > Cent})

DebtorCount == Cardinality({i \in Members : BalanceOf(i) < -Cent})

\* C13: every instruction pushed has a rounded amount above zero, is paid by
\* a member whose input balance is below -0.01 to a member whose input
\* balance is above 0.01, and these two are different members.
C13_WellFormed ==
  \A k \in 1..Len(result) :
    /\ result[k].amount > 0
    /\ result[k].from # result[k].to
    /\ \E i \in Members :
         group[i].userId = result[k].from /\ BalanceOf(i) < -Cent
    /\ \E j \in Members :
         group[j].userId = result[k].to /\ BalanceOf(j) > Cent

\* C13 witness: a finished run with two instructions, one of the smallest
\* amount, 0.01
C13_Witness ==
  /\ pc = "done"
  /\ Len(result) >= 2
  /\ \E k \in 1..Len(result) : result[k].amount = Cent

\* C16 (as claimed): at every step, among the creditors (and among the
\* debtors) whose remaining amount equals that of the chosen one, the chosen
\* one is the earliest in the member list of the group.
C16_TieBreakByInputOrder ==
  [][Pushes =>
       /\ \A k \in 1..Len(creditorBalances) :
            creditorBalances[k].remaining =
              EntryOf(creditorBalances, Pushed.to).remaining
            => PosOf(Pushed.to) <= PosOf(creditorBalances[k].userId)
       /\ \A k \in 1..Len(debtorBalances) :
            debtorBalances[k].remaining =
              EntryOf(debtorBalances, Pushed.from).remaining
            => PosOf(Pushed.from) <= PosOf(debtorBalances[k].userId)]_vars

C18_GreedyLargest ==
  [][Pushes =>
       \E c \in 1..Len(creditorBalances), d \in 1..Len(debtorBalances) :
         /\ creditorBalances[c].userId = Pushed.to
         /\ debtorBalances[d].userId = Pushed.from
         /\ \A k \in 1..Len(creditorBalances) :
              creditorBalances[k].remaining <= creditorBalances[c].remaining
         /\ \A k \in 1..Len(debtorBalances) :
              debtorBalances[k].remaining <= debtorBalances[d].remaining
         /\ Pushed.amount =
              IF creditorBalances[c].remaining < debtorBalances[d].remaining
              THEN Round2(creditorBalances[c].remaining)
              ELSE Round2(debtorBalances[d].remaining)]_vars

\* C18 witness: the first instruction goes from a debtor to a creditor who
\* both come later in the member list than a debtor and a creditor with less
\* remaining
C18_Witness ==
  /\ result # <<>>
  /\ \E i, j \in Members :
       /\ i < j
       /\ BalanceOf(i) > Cent
       /\ BalanceOf(j) > BalanceOf(i)
       /\ result[1].to = group[j].userId
  /\ \E i, j \in Members :
       /\ i < j
       /\ BalanceOf(i) < -Cent
       /\ BalanceOf(j) < BalanceOf(i)
       /\ result[1].from = group[j].userId

\* C19: every iteration of the loop removes at least one party from the
\* partitions, and the number of iterations never exceeds the number of
\* creditors plus the number of debtors minus one.
C19_Progress ==
  /\ [][Pushes =>
          Len(creditorBalances') + Len(debtorBalances')
            < Len(creditorBalances) + Len(debtorBalances)]_vars
  /\ [](Len(result) <= IF CreditorCount + DebtorCount = 0 THEN 0
                       ELSE CreditorCount + DebtorCount - 1)

\* C19 witness: a finished run over two creditors and one debtor that took
\* the two iterations the bound allows
C19_Witness ==
  /\ pc = "done"
  /\ CreditorCount = 2
  /\ DebtorCount = 1
  /\ Len(result) = 2

\* the while loop of settlements run to its end from the two lists: the
\* instructions it pushes
RECURSIVE PlanFrom(_, _)
PlanFrom(creditors, debtors) ==
  IF creditors = <<>> \/ debtors = <<>> THEN <<>>
  ELSE LET cs == SortDesc(creditors)
           ds == SortDesc(debtors)
           amount == Min(cs[1].remaining, ds[1].remaining)
           cs2 == [cs EXCEPT ![1].remaining = @ - amount]
           ds2 == [ds EXCEPT ![1].remaining = @ - amount]
       IN <<[from |-> ds[1].userId, to |-> cs[1].userId,
             amount |-> Round2(amount)]>>
          \o PlanFrom(DropCleared(cs2), DropCleared(ds2))

\* the plan settlements returns for a list of members
PlanOf(members) ==
  PlanFrom([i \in 1..Len(SelectSeq(members, IsCreditor)) |->
              [userId |-> SelectSeq(members, IsCreditor)[i].userId,
               remaining |-> SelectSeq(members, IsCreditor)[i].balance]],
           [i \in 1..Len(SelectSeq(members, IsDebtor)) |->
              [userId |-> SelectSeq(members, IsDebtor)[i].userId,
               remaining |-> Abs(SelectSeq(members, IsDebtor)[i].balance)]])

\* the members of the group with every instruction of plan applied
Settled(plan) ==
  [i \in 1..Len(group) |->
     [group[i] EXCEPT
        !.balance = @ + PaidBy(plan, group[i].userId)
                      - PaidTo(plan, group[i].userId)]]

\* C23: no step of the computation of settlements changes the group it
\* reads: the members, their order and their balances stay as they were.
C23_OptimizerPure ==
  [][(pc = "start" \/ pc = "loop") => group' = group]_vars

\* C23 witness: a finished computation whose sort moved a later creditor in
\* front of an earlier one, the group still in its order
C23_Witness ==
  /\ pc = "done"
  /\ Len(result) >= 2
  /\ \E i, j \in Members :
       /\ i < j
       /\ BalanceOf(i) > Cent
       /\ BalanceOf(j) > BalanceOf(i)
       /\ result[1].to = group[j].userId
  /\ \A i \in Members : group[i].userId = i

\* C24 (as claimed): the instructions paid by a debtor sum to at most the
\* absolute value of its input balance, those paid to a creditor sum to at
\* most its input balance, and applying the plan never takes a member's
\* balance past zero by more than 0.01.
C24_NoOverPayment ==
  \A i \in 1..Len(group) :
    /\ group[i].balance < -Cent =>
         PaidBy(result, group[i].userId) <= -group[i].balance
    /\ group[i].balance > Cent =>
         PaidTo(result, group[i].userId) <= group[i].balance
    /\ group[i].balance > 0 => Settled(result)[i].balance >= -Cent
    /\ group[i].balance < 0 => Settled(result)[i].balance <= Cent

\* C25 (as claimed): the optimizer run again on the balances left by applying
\* every instruction of its plan returns the empty list.
C25_PlanIsFixedPoint ==
  pc = "done" => PlanOf(Settled(result)) = <<>>

\* the loop run in steps returns what the loop run to its end returns
PlanOfAgrees ==
  pc = "done" => result = PlanOf(group)

\* ---------------------------------------------------- demo store: claims
\* payer and split members are members, and the splits sum to the total
ValidExpense(e) ==
  /\ e.paidBy \in MemberIds
  /\ \A j \in 1..Len(e.splits) : e.splits[j].userId \in MemberIds
  /\ SplitTotal(e.splits) = e.amount

HasUnknownMember(e) ==
  \/ e.paidBy \notin MemberIds
  \/ \E j \in 1..Len(e.splits) : e.splits[j].userId \notin MemberIds

HasNegativeSplit(e) == \E j \in 1..Len(e.splits) : e.splits[j].amount < 0

DemoBalanceSum ==
  SumOver([k \in 1..Len(demoMembers) |-> demoMembers[k].balance],
          1..Len(demoMembers))

\* what the stored payments add to the balance of uid: sent minus received
PaymentsDelta(payments, uid) ==
  SumOver([k \in 1..Len(payments) |->
             (IF payments[k].fromUserId = uid THEN payments[k].amount ELSE 0)
             - (IF payments[k].toUserId = uid THEN payments[k].amount ELSE 0)],
          1..Len(payments))

\* C5: when every stored expense has members as payer and split members and
\* splits summing to its total, the balances updateGroupBalances wrote sum to
\* zero over the members.
C5_DemoZeroSum ==
  (\A k \in 1..Len(demoExpenses) : ValidExpense(demoExpenses[k])) =>
    DemoBalanceSum = 0

\* C5 witness: a valid expense is stored and the balances it produced are
\* not all zero
C5_Witness ==
  /\ demoExpenses # <<>>
  /\ \A k \in 1..Len(demoExpenses) : ValidExpense(demoExpenses[k])
  /\ \E k \in 1..Len(demoMembers) : demoMembers[k].balance > 0
  /\ \E k \in 1..Len(demoMembers) : demoMembers[k].balance < 0

\* C12: once updateGroupBalances has run, running it again on the same stored
\* expenses and members leaves every stored balance as it is, whatever the
\* balances were before the first run.
C12_AggregatorIdempotent ==
  [][demoOutcome = "resolved" => demoMembers' = demoMembers]_vars

\* C12 witness: a run replaced stored balances by ones that are not all zero
C12_Witness ==
  /\ demoOutcome = "resolved"
  /\ demoExpenses # <<>>
  /\ \E k \in 1..Len(demoMembers) : demoMembers[k].balance > 0
  /\ \E k \in 1..Len(demoMembers) : demoMembers[k].balance < 0

\* every addExpense call made has returned
AllAdded ==
  \A c \in 1..Len(demoCalls) : demoCalls[c].at = "returned"

\* C27 (as claimed): when the addExpense calls started before either has
\* finished have all returned, the stored list holds the expense of each of
\* them and every member's stored balance is the sum of what each of them
\* adds to it, whatever the order of their reads and writes was.
C27_NoLostExpense ==
  AllAdded =>
    /\ \A c \in 1..Len(demoCalls) :
         \E k \in 1..Len(demoExpenses) :
           /\ demoExpenses[k].id = c
           /\ demoExpenses[k].paidBy = demoCalls[c].arg.paidBy
           /\ demoExpenses[k].amount = demoCalls[c].arg.amount
           /\ demoExpenses[k].splits = demoCalls[c].arg.splits
    /\ \A k \in 1..Len(demoMembers) :
         demoMembers[k].balance
           = SumOver([c \in 1..Len(demoCalls) |->
                        ExpenseDelta(demoCalls[c].arg, demoMembers[k].userId)],
                     1..Len(demoCalls))

\* C29: updateGroupBalances of the group changes nothing but the balance
\* field of the members of that group: their ids, order, names and roles
\* stay, no entry is added for a user who is not a member, and every other
\* stored group is written back as it was.
C29_RecomputeFrame ==
  [][/\ Len(demoMembers') = Len(demoMembers)
     /\ \A k \in 1..Len(demoMembers) :
          [demoMembers'[k] EXCEPT !.balance = 0]
            = [demoMembers[k] EXCEPT !.balance = 0]
     /\ demoOtherGroups' = demoOtherGroups]_vars

\* C29 witness: a run over an expense that names a user who is not a member
\* has written balances that are not all zero
C29_Witness ==
  /\ demoOutcome = "resolved"
  /\ demoExpenses # <<>>
  /\ HasUnknownMember(demoExpenses[1])
  /\ \E k \in 1..Len(demoMembers) : demoMembers[k].balance # 0

\* C7 (as claimed): in demo mode every member's stored balance is expenses
\* paid minus splits owed plus payments sent minus payments received, over
\* the stored records.
C7_DemoPaymentsCounted ==
  \A k \in 1..Len(demoMembers) :
    demoMembers[k].balance =
      SumOver([e \in 1..Len(demoExpenses) |->
                 ExpenseDelta(demoExpenses[e], demoMembers[k].userId)],
              1..Len(demoExpenses))
      + PaymentsDelta(demoPayments, demoMembers[k].userId)

\* C8 (as claimed): a balance computation over expenses that name a payer or
\* a split user who is not a member ends in an error.
C8_UnknownMemberRejected ==
  [][(demoExpenses' # demoExpenses
      /\ \E k \in 1..Len(demoExpenses') : HasUnknownMember(demoExpenses'[k]))
     => demoOutcome' = "error"]_vars

\* C9 (as claimed): adding an expense with a negative split amount ends in an
\* error and leaves every stored balance unchanged.
C9_NegativeRejected ==
  [][(/\ Len(demoExpenses') = Len(demoExpenses) + 1
      /\ HasNegativeSplit(demoExpenses'[Len(demoExpenses')]))
     => (demoOutcome' = "error" /\ demoMembers' = demoMembers)]_vars

\* ------------------------------------------------- GroupDetail page: claims
\* the users of the splits of expense e
SplitUsers(e) == {e.splits[j].userId : j \in 1..Len(e.splits)}

\* e is split in equal shares among two or more users, its payer one of them,
\* and its total is the sum of the shares
EqualSplitWithPayer(e) ==
  /\ Len(e.splits) >= 2
  /\ Cardinality(SplitUsers(e)) = Len(e.splits)
  /\ e.paidBy \in SplitUsers(e)
  /\ \A j \in 1..Len(e.splits) : e.splits[j].amount = e.splits[1].amount
  /\ e.amount = Len(e.splits) * e.splits[1].amount

\* the stored balances are (k-1)*s for the payer of e, -s for every other
\* user of its splits, 0 for the rest
EqualSplitBalances(e) ==
  \A i \in 1..Len(demoMembers) :
    demoMembers[i].balance =
      IF demoMembers[i].userId = e.paidBy
      THEN (Len(e.splits) - 1) * e.splits[1].amount
      ELSE IF demoMembers[i].userId \in SplitUsers(e)
           THEN -e.splits[1].amount
           ELSE 0

\* one instruction of the given amount to the payer of e from every other
\* user of its splits, in the order of the member list of the group
EqualSplitPlan(e, amount) ==
  LET Owes(m) == m.userId # e.paidBy /\ m.userId \in SplitUsers(e)
      others == SelectSeq(group, Owes)
  IN [i \in 1..Len(others) |->
        [from |-> others[i].userId, to |-> e.paidBy, amount |-> amount]]

\* the page has loaded the group as stored, its only expense is an equal
\* split the payer is part of, and settlements has been computed
EqualSplitShown ==
  /\ pc = "done"
  /\ Len(demoExpenses) = 1
  /\ EqualSplitWithPayer(demoExpenses[1])
  /\ group = demoMembers

C15_PlanFreshness ==
  pc = "done" => group = demoMembers

\* -------------------------------------------------- Supabase store: claims
\* C6 (as claimed): after completed create, delete and payment calls with
\* valid arguments, every member's stored balance is the sum of the member's
\* signed contributions over the stored expenses and payments.
C6_CachedEqualsDerived ==
  supaAllValid =>
    \A m \in MemberIds :
      tblMembers[<<TheGroup, m>>] =
        SumOver([e \in 1..Len(tblExpenses) |-> ExpenseDelta(tblExpenses[e], m)],
                1..Len(tblExpenses))
        + PaymentsDelta(tblPayments, m)

\* the rows of the table other than those of the two users in the group
OtherRows(p) ==
  {r \in DOMAIN tblMembers :
     r[1] # TheGroup \/ (r[2] # p.fromUserId /\ r[2] # p.toUserId)}

\* the step stores the payment p and changes the balances by its amount
PaymentEffect(p) ==
  /\ tblPayments' = Append(tblPayments, [p EXCEPT !.amount = RoundDec(@)])
  /\ p.fromUserId \in MemberIds =>
       tblMembers'[<<TheGroup, p.fromUserId>>]
         = tblMembers[<<TheGroup, p.fromUserId>>] + p.amount
  /\ p.toUserId \in MemberIds =>
       tblMembers'[<<TheGroup, p.toUserId>>]
         = tblMembers[<<TheGroup, p.toUserId>>] - p.amount
  /\ \A r \in OtherRows(p) : tblMembers'[r] = tblMembers[r]

StoresPayment == Len(tblPayments') = Len(tblPayments) + 1

WholeCentTransfer(p) == p.fromUserId # p.toUserId /\ p.amount % Cent = 0

StoresExpense == Len(tblExpenses') = Len(tblExpenses) + 1

\* the step stores the expense e and changes the balance of every member by
\* what the recomputation rule gives for e
ExpenseEffect(e) ==
  /\ tblExpenses' = Append(tblExpenses, ExpenseRow(supaInserted + 1, e))
  /\ \A m \in MemberIds :
       tblMembers'[<<TheGroup, m>>] - tblMembers[<<TheGroup, m>>]
         = ExpenseDelta(e, m)

\* C21 (as claimed): every expense expensesService.create accepts changes each
\* member's stored balance by what the recomputation rule of
\* updateGroupBalances gives: plus its total for the payer, minus the split
\* amount for every member of a split.
C21_IncrementalMatchesRecompute ==
  [][StoresExpense => \E e \in ExpenseInputs : ExpenseEffect(e)]_vars

TableBalanceSum ==
  SumOver([m \in MemberIds |-> tblMembers[<<TheGroup, m>>]], MemberIds)

AllReturned ==
  \A c \in 1..Len(inflight) : inflight[c].done = Len(OpsOf(inflight[c])) + 1

\* what the update_balance calls of call c add to the balance of m
CallDelta(c, m) ==
  SumOver([k \in 1..Len(OpsOf(inflight[c])) |->
             IF OpsOf(inflight[c])[k].userId = m
             THEN OpsOf(inflight[c])[k].amount ELSE 0],
          1..Len(OpsOf(inflight[c])))

\* every amount of every call in flight is a whole number of cents
WholeCentCalls ==
  \A c \in 1..Len(inflight) :
    \A k \in 1..Len(OpsOf(inflight[c])) : OpsOf(inflight[c])[k].amount % Cent = 0

\* C26 (as claimed): when the calls running at the same time have all
\* returned, every member's stored balance is its balance at the start, 0,
\* plus the deltas of all the calls, whatever the order of their
\* update_balance calls was.
C26_NoLostUpdate ==
  AllReturned =>
    \A m \in MemberIds :
      tblMembers[<<TheGroup, m>>]
        = SumOver([c \in 1..Len(inflight) |-> CallDelta(c, m)], 1..Len(inflight))

\* the same when every amount is a whole number of cents
NoLostUpdateWholeCents ==
  (AllReturned /\ WholeCentCalls) =>
    \A m \in MemberIds :
      tblMembers[<<TheGroup, m>>]
        = SumOver([c \in 1..Len(inflight) |-> CallDelta(c, m)], 1..Len(inflight))

\* C28 (as claimed): the member balances a getGroupWithMembers call returns
\* while a create call is running sum to zero: they are those before or
\* those after the call.
C28_ConsistentSnapshot ==
  snapshot # <<>> => SumOver(snapshot, MemberIds) = 0

====
